---- MODULE Spec2Model ----
(***************************************************************************)
(* A model of the MVG client library (src/src/mvg/mvgapi.py): the station  *)
(* id validator, the HTTP request executor, the response normalizers, the  *)
(* concurrent lines aggregation and the station-bound facade.              *)
(*                                                                         *)
(* Strings are TLA+ strings, read character by character with SubSeq.      *)
(* A JSON value is a record [t, s, n, l] tagged by its JSON type; a JSON   *)
(* object is a function over Keys whose absent keys hold Missing; a list   *)
(* entry is either an object or a non-object value.                        *)
(***************************************************************************)
EXTENDS Integers, Sequences, FiniteSets, TLC

\* ------------------------------------------------------------------------
\* Bounds of the model
\* ------------------------------------------------------------------------
MaxRegion == 6      \* longest region digit run among the caller's strings
MaxList == 2        \* longest JSON list a remote endpoint answers with
MaxStations == 2    \* longest station id enumeration in lines aggregation

\* ------------------------------------------------------------------------
\* Program constants
\* ------------------------------------------------------------------------
MVGAPI_DEFAULT_LIMIT == 10
MinRegionDigits == 2
MaxRegionDigits == 5

\* ------------------------------------------------------------------------
\* Strings
\* ------------------------------------------------------------------------
Char(s, i) == SubSeq(s, i, i)

IsDigit(c) == c \in {"0", "1", "2", "3", "4", "5", "6", "7", "8", "9"}

IsSpace(c) == c \in {" ", "\t", "\n"}

RECURSIVE Rep(_, _)
Rep(c, k) == IF k = 0 THEN "" ELSE c \o Rep(c, k - 1)

RECURSIVE LStrip(_)
LStrip(s) ==
    IF Len(s) > 0 /\ IsSpace(Char(s, 1)) THEN LStrip(SubSeq(s, 2, Len(s))) ELSE s

RECURSIVE RStrip(_)
RStrip(s) ==
    IF Len(s) > 0 /\ IsSpace(Char(s, Len(s)))
    THEN RStrip(SubSeq(s, 1, Len(s) - 1))
    ELSE s

\* str.strip(): leading and trailing whitespace removed
Strip(s) == RStrip(LStrip(s))

\* number of consecutive digits of s from position i on
RECURSIVE DigitRun(_, _)
DigitRun(s, i) ==
    IF i <= Len(s) /\ IsDigit(Char(s, i)) THEN 1 + DigitRun(s, i + 1) ELSE 0

\* position after the match of  de:\d{2,5}:\d+  anchored at the start of s,
\* or 0 when the pattern does not match there (the greedy region run backs
\* off until a colon follows)
PatternEnd(s) ==
    IF Len(s) < 3 \/ SubSeq(s, 1, 3) # "de:" THEN 0
    ELSE LET run == DigitRun(s, 4)
             most == IF run < MaxRegionDigits THEN run ELSE MaxRegionDigits
             ks == {k \in MinRegionDigits..most :
                       /\ 4 + k <= Len(s)
                       /\ Char(s, 4 + k) = ":"
                       /\ DigitRun(s, 5 + k) >= 1}
         IN IF ks = {} THEN 0
            ELSE LET k == CHOOSE k \in ks : \A j \in ks : j <= k
                 IN 5 + k + DigitRun(s, 5 + k)

\* re.match: the pattern matches a prefix of s
valid_format_prefix(s) == PatternEnd(s) # 0

\* bool(re.fullmatch(r"de:\d{2,5}:\d+", station_id))
valid_format(s) == PatternEnd(s) = Len(s) + 1

\* ------------------------------------------------------------------------
\* JSON values, objects and list entries
\* ------------------------------------------------------------------------
JMissing == [t |-> "missing", s |-> "", n |-> 0, l |-> <<>>]
JNull == [t |-> "null", s |-> "", n |-> 0, l |-> <<>>]
JStr(x) == [t |-> "str", s |-> x, n |-> 0, l |-> <<>>]
JNum(x) == [t |-> "num", s |-> "", n |-> x, l |-> <<>>]
JBool(x) == [t |-> "bool", s |-> "", n |-> IF x THEN 1 ELSE 0, l |-> <<>>]
JList(x) == [t |-> "list", s |-> "", n |-> 0, l |-> x]

Keys ==
    {"type", "globalId", "name", "place", "latitude", "longitude",
     "realtimeDepartureTime", "plannedDepartureTime", "label", "destination",
     "transportType", "cancelled", "messages",
     "id", "time", "planned", "line", "icon"}

\* a JSON object (Python dict) holding the fields of the record r
Obj(r) ==
    [dict |-> TRUE, v |-> JNull,
     f |-> [k \in Keys |-> IF k \in DOMAIN r THEN r[k] ELSE JMissing]]

\* a list entry that is not an object (a string, a number, null)
NonObj(x) == [dict |-> FALSE, v |-> x, f |-> [k \in Keys |-> JMissing]]

\* dict.get(key, default)
Get(e, k, default) == IF e.f[k].t = "missing" THEN default ELSE e.f[k]

HasKey(e, k) == e.f[k].t # "missing"

\* ------------------------------------------------------------------------
\* Python results: a returned value or a raised exception
\* ------------------------------------------------------------------------
NoResult == [kind |-> "pending", exc |-> "", tag |-> "", b |-> FALSE, val |-> <<>>]
Raise(e) == [kind |-> "raise", exc |-> e, tag |-> "", b |-> FALSE, val |-> <<>>]
RetBool(x) == [kind |-> "return", exc |-> "", tag |-> "bool", b |-> x, val |-> <<>>]
RetNone == [kind |-> "return", exc |-> "", tag |-> "none", b |-> FALSE, val |-> <<>>]
RetObj(x) == [kind |-> "return", exc |-> "", tag |-> "obj", b |-> FALSE, val |-> <<x>>]
RetList(x) == [kind |-> "return", exc |-> "", tag |-> "list", b |-> FALSE, val |-> x]
\* a JSON body that is not a list (an object, a string, null), passed through
RetOther == [kind |-> "return", exc |-> "", tag |-> "other", b |-> FALSE, val |-> <<>>]

\* ------------------------------------------------------------------------
\* TransportType
\* ------------------------------------------------------------------------
TransportTypeNames ==
    <<"BAHN", "SBAHN", "UBAHN", "TRAM", "BUS", "REGIONAL_BUS", "SEV", "SCHIFF">>

TransportTypeMembers == {TransportTypeNames[i] : i \in DOMAIN TransportTypeNames}

TransportType ==
    [m \in TransportTypeMembers |->
        CASE m = "BAHN" -> <<"Bahn", "mdi:train">>
          [] m = "SBAHN" -> <<"S-Bahn", "mdi:subway-variant">>
          [] m = "UBAHN" -> <<"U-Bahn", "mdi:subway">>
          [] m = "TRAM" -> <<"Tram", "mdi:tram">>
          [] m = "BUS" -> <<"Bus", "mdi:bus">>
          [] m = "REGIONAL_BUS" -> <<"Regionalbus", "mdi:bus">>
          [] m = "SEV" -> <<"SEV", "mdi:taxi">>
          [] m = "SCHIFF" -> <<"Schiff", "mdi:ferry">>]

\* TransportType.all(): every member except SEV, in definition order
TransportTypeAll == SelectSeq(TransportTypeNames, LAMBDA m : m # "SEV")

\* ",".join(names)
RECURSIVE Join(_)
Join(names) ==
    IF names = <<>> THEN ""
    ELSE IF Len(names) = 1 THEN names[1]
    ELSE names[1] \o "," \o Join(Tail(names))

\* ------------------------------------------------------------------------
\* HTTP request executor
\* ------------------------------------------------------------------------
\* What the remote side does with one GET: the transport fails with an
\* aiohttp.ClientError, or a response arrives with a status, a content type
\* and a JSON body (a list of entries, or some other JSON value).
ClientErrorResponse ==
    [client_error |-> TRUE, status |-> 0, content_type |-> "",
     islist |-> FALSE, items |-> <<>>]

HttpResponse(st, ct, isl, its) ==
    [client_error |-> FALSE, status |-> st, content_type |-> ct,
     islist |-> isl, items |-> its]

JsonList(its) == HttpResponse(200, "application/json", TRUE, its)

\* no answer yet
NoResponse == HttpResponse(0, "", FALSE, <<>>)

\* MvgApi.__api: the parsed body, or MvgApiError
Api(resp) ==
    IF resp.client_error THEN Raise("MvgApiError")
    ELSE IF resp.status # 200 THEN Raise("MvgApiError")
    ELSE IF resp.content_type # "application/json" THEN Raise("MvgApiError")
    ELSE IF resp.islist THEN RetList(resp.items)
    ELSE RetOther

\* the except (AssertionError, KeyError) clause of the normalizers
Caught(e) == e \in {"AssertionError", "KeyError"}

Wrap(r) == IF r.kind = "raise" /\ Caught(r.exc) THEN Raise("MvgApiError") ELSE r

\* assert isinstance(result, list)
AssertList(r) ==
    IF r.kind = "raise" THEN r
    ELSE IF r.tag = "list" THEN r
    ELSE Raise("AssertionError")

\* ------------------------------------------------------------------------
\* Response normalizers
\* ------------------------------------------------------------------------
\* a station dictionary built with .get(key) and no default
station_without_defaults(location) ==
    Obj([id |-> Get(location, "globalId", JNull),
         name |-> Get(location, "name", JNull),
         place |-> Get(location, "place", JNull),
         latitude |-> Get(location, "latitude", JNull),
         longitude |-> Get(location, "longitude", JNull)])

\* the station dictionary built from a location entry
Station(location) ==
    Obj([id |-> Get(location, "globalId", JStr("")),
         name |-> Get(location, "name", JStr("")),
         place |-> Get(location, "place", JStr("")),
         latitude |-> Get(location, "latitude", JNum(0)),
         longitude |-> Get(location, "longitude", JNum(0))])

\* location.get("type") == "STATION"
IsStationType(location) == location.f["type"] = JStr("STATION")

\* a scan that returns the first object whatever its type
first_entry(result) ==
    IF result = <<>> THEN RetNone
    ELSE IF ~Head(result).dict THEN Raise("AttributeError")
    ELSE RetObj(Station(Head(result)))

\* for location in result: return the first STATION entry, None if there is
\* none; .get on an entry that is not a dict raises AttributeError
RECURSIVE FirstStation(_)
FirstStation(result) ==
    IF result = <<>> THEN RetNone
    ELSE IF ~Head(result).dict THEN Raise("AttributeError")
    ELSE IF IsStationType(Head(result)) THEN RetObj(Station(Head(result)))
    ELSE FirstStation(Tail(result))

\* the body of station_query and of nearby_async once the request is answered
StationSearch(resp) ==
    LET result == AssertList(Api(resp))
    IN Wrap(IF result.kind = "raise" THEN result ELSE FirstStation(result.val))

\* round(x / 1000): the nearest second instead of the second begun
ms_to_nearest_second(ms) == (ms + 500) \div 1000

\* int(x / 1000): true division, then truncation towards zero
MsToSeconds(ms) == IF ms >= 0 THEN ms \div 1000 ELSE -((-ms) \div 1000)

\* a lookup that falls back to the first member TransportType.all() lists
\* after BAHN
transport_type_other_fallback(departure) ==
    LET transport_type == Get(departure, "transportType", JStr("BAHN"))
    IN IF transport_type.t = "str" /\ transport_type.s \in DOMAIN TransportType
       THEN transport_type.s
       ELSE "SBAHN"

\* transport_type after lines 420-423
DepartureTransportType(departure) ==
    LET transport_type == Get(departure, "transportType", JStr("BAHN"))
    IN IF transport_type.t = "str" /\ transport_type.s \in DOMAIN TransportType
       THEN transport_type.s
       ELSE "BAHN"

\* the dictionary appended for one departure
Departure(departure) ==
    LET transport_type == DepartureTransportType(departure)
    IN Obj([time |-> JNum(MsToSeconds(Get(departure, "realtimeDepartureTime", JNum(0)).n)),
            planned |-> JNum(MsToSeconds(Get(departure, "plannedDepartureTime", JNum(0)).n)),
            line |-> Get(departure, "label", JStr("")),
            destination |-> Get(departure, "destination", JStr("")),
            type |-> JStr(TransportType[transport_type][1]),
            icon |-> JStr(TransportType[transport_type][2]),
            cancelled |-> Get(departure, "cancelled", JBool(FALSE)),
            messages |-> Get(departure, "messages", JList(<<>>))])

\* a value Python can divide by 1000
IsNumber(x) == x.t \in {"num", "bool"}

\* the exception one departure entry raises, "" when it raises none
DepartureError(departure) ==
    IF ~departure.dict THEN "AttributeError"
    ELSE IF departure.f["transportType"].t = "list" THEN "TypeError"
    ELSE IF ~IsNumber(Get(departure, "realtimeDepartureTime", JNum(0))) THEN "TypeError"
    ELSE IF ~IsNumber(Get(departure, "plannedDepartureTime", JNum(0))) THEN "TypeError"
    ELSE ""

\* for departure in result: departures.append({...})
RECURSIVE Departures(_, _)
Departures(result, departures) ==
    IF result = <<>> THEN RetList(departures)
    ELSE IF DepartureError(Head(result)) # "" THEN Raise(DepartureError(Head(result)))
    ELSE Departures(Tail(result), Append(departures, Departure(Head(result))))

\* the try block of departures_async once the request is answered
DeparturesBody(resp) ==
    LET result == AssertList(Api(resp))
    IN Wrap(IF result.kind = "raise" THEN result ELSE Departures(result.val, <<>>))

\* the endpoints whose list is returned as it is: stations, lines of one
\* station, messages
RawList(resp) == Wrap(AssertList(Api(resp)))

\* ------------------------------------------------------------------------
\* Station id enumeration and lines aggregation
\* ------------------------------------------------------------------------
\* the characters of the modelled strings in code point order
Alphabet == "\t\n 0123456789:Udeinx"

Code(c) == CHOOSE i \in 1..Len(Alphabet) : Char(Alphabet, i) = c

\* a < b for Python strings
RECURSIVE StrLess(_, _)
StrLess(a, b) ==
    IF Len(b) = 0 THEN FALSE
    ELSE IF Len(a) = 0 THEN TRUE
    ELSE IF Char(a, 1) = Char(b, 1)
         THEN StrLess(SubSeq(a, 2, Len(a)), SubSeq(b, 2, Len(b)))
         ELSE Code(Char(a, 1)) < Code(Char(b, 1))

\* x inserted into the ascending list xs behind the entries not greater
RECURSIVE Insert(_, _)
Insert(x, xs) ==
    IF xs = <<>> THEN <<x>>
    ELSE IF StrLess(x, Head(xs)) THEN <<x>> \o xs
    ELSE <<Head(xs)>> \o Insert(x, Tail(xs))

\* sorted(result) for a list of strings
RECURSIVE Sorted(_)
Sorted(xs) ==
    IF xs = <<>> THEN <<>> ELSE Insert(xs[Len(xs)], Sorted(SubSeq(xs, 1, Len(xs) - 1)))

\* the strings of a list of string entries
Strings(items) == [i \in 1..Len(items) |-> items[i].v.s]

\* station_ids_async once the request is answered
StationIds(resp) ==
    LET result == AssertList(Api(resp))
    IN Wrap(IF result.kind = "raise" THEN result
            ELSE RetList([i \in 1..Len(result.val) |->
                            NonObj(JStr(Sorted(Strings(result.val))[i]))]))

\* a task of the gather: pending, or settled with what __api did
PendingTask == [settled |-> FALSE, result |-> NoResult]
SettledTask(r) == [settled |-> TRUE, result |-> r]

\* asyncio.gather(*tasks) with return_exceptions=False is over as soon as a
\* task raises
gather_fail_fast(tasks) ==
    \/ \A i \in DOMAIN tasks : tasks[i].settled
    \/ \E i \in DOMAIN tasks : tasks[i].settled /\ tasks[i].result.kind = "raise"

\* asyncio.gather(*tasks, return_exceptions=True) is over when every task
\* has settled
gather_done(tasks) == \A i \in DOMAIN tasks : tasks[i].settled

\* the results in the order the tasks completed in
results_in_completion_order(tasks, order) ==
    [i \in 1..Len(order) |-> tasks[order[i]].result]

\* the results of gather: one per task, in the order the tasks were given
gather_results(tasks, order) == [i \in DOMAIN tasks |-> tasks[i].result]

\* all_lines: the list results concatenated, everything else skipped
RECURSIVE AllLines(_)
AllLines(results) ==
    IF results = <<>> THEN <<>>
    ELSE IF Head(results).kind = "return" /\ Head(results).tag = "list"
         THEN Head(results).val \o AllLines(Tail(results))
         ELSE AllLines(Tail(results))

\* a value as a dictionary key: None for an absent key, True and False equal
\* to 1 and 0
PyKey(x) ==
    IF x.t = "missing" THEN JNull ELSE IF x.t = "bool" THEN JNum(x.n) ELSE x

\* (line.get("label"), line.get("transportType"))
LineKey(line) == <<PyKey(line.f["label"]), PyKey(line.f["transportType"])>>

\* unique_lines: the first line of every key, in the order the keys are met
RECURSIVE UniqueLines(_, _)
UniqueLines(all_lines, unique_lines) ==
    IF all_lines = <<>> THEN RetList(unique_lines)
    ELSE LET line == Head(all_lines)
         IN IF ~line.dict THEN Raise("AttributeError")
            ELSE IF line.f["label"].t = "list" \/ line.f["transportType"].t = "list"
                 THEN Raise("TypeError")
            ELSE IF \E i \in 1..Len(unique_lines) :
                        LineKey(unique_lines[i]) = LineKey(line)
                 THEN UniqueLines(Tail(all_lines), unique_lines)
                 ELSE UniqueLines(Tail(all_lines), Append(unique_lines, line))

\* lines 272-285 of lines_async
MergeLines(results) == Wrap(UniqueLines(AllLines(results), <<>>))

\* ------------------------------------------------------------------------
\* The values callers pass and the remote side answers with
\* ------------------------------------------------------------------------
\* strings a caller passes as a station id: a prefix, a region, the rest,
\* with and without surrounding whitespace, and free text
StationStrings ==
    {lpad \o prefix \o region \o rest \o rpad :
        lpad \in {"", " "},
        prefix \in {"de:", "dx:"},
        region \in {Rep("0", k) : k \in 1..MaxRegion},
        rest \in {":7", ":", "7", ":7x"},
        rpad \in {"", "\n"}}
    \cup {"Uni", ""}

\* strings a caller constructs the facade from
InitStrings == {"de:00:7", " de:00:7\n", "de:0:7", "de:00:7x", "Uni", " Uni", ""}

\* the (limit, offset, transport_types) combinations a caller passes;
\* transport_types is None or a list of member names
NoTypes == [none |-> TRUE, names |-> <<>>]
Types(names) == [none |-> FALSE, names |-> names]

DepartureParams ==
    {[limit |-> MVGAPI_DEFAULT_LIMIT, offset |-> 0, transport_types |-> NoTypes],
     [limit |-> 1, offset |-> 5, transport_types |-> Types(<<"UBAHN", "BUS">>)],
     [limit |-> 0, offset |-> 0, transport_types |-> Types(<<>>)]}

\* every list of at most MaxList entries of the pool
ListsOver(pool) == UNION {[1..n -> pool] : n \in 0..MaxList}

\* answers that make __api raise, and a JSON body that is not a list
FailedResponses ==
    {ClientErrorResponse,
     HttpResponse(500, "application/json", TRUE, <<>>),
     HttpResponse(200, "text/html", TRUE, <<>>)}

NonListResponse == HttpResponse(200, "application/json", FALSE, <<>>)

LocationPool ==
    {Obj([type |-> JStr("STATION"), globalId |-> JStr("de:09162:70"),
          name |-> JStr("Uni"), place |-> JStr("Muenchen"),
          latitude |-> JNum(48), longitude |-> JNum(11)]),
     Obj([type |-> JStr("STATION"), globalId |-> JStr("de:00:7")]),
     Obj([type |-> JStr("STATION")]),
     Obj([type |-> JStr("POI"), name |-> JStr("Cafe")]),
     Obj([name |-> JStr("Untyped")]),
     NonObj(JStr("x"))}

DeparturePool ==
    {Obj([realtimeDepartureTime |-> JNum(1668524580),
          transportType |-> JStr("UBAHN"), label |-> JStr("U3")]),
     Obj([realtimeDepartureTime |-> JNum(1999), plannedDepartureTime |-> JNum(-1500),
          label |-> JStr("S1"), destination |-> JStr("Ost"),
          transportType |-> JStr("SBAHN"), cancelled |-> JBool(TRUE),
          messages |-> JList(<<"late">>)]),
     Obj([label |-> JStr("N")]),
     Obj([transportType |-> JStr("FOO"), label |-> JStr("X")]),
     Obj([transportType |-> JNull, plannedDepartureTime |-> JNum(2000)]),
     Obj([transportType |-> JList(<<"BUS">>)]),
     Obj([realtimeDepartureTime |-> JNull, transportType |-> JStr("BUS")]),
     NonObj(JNum(7))}

LinePool ==
    {Obj([label |-> JStr("U3"), transportType |-> JStr("UBAHN"), name |-> JStr("a")]),
     Obj([label |-> JStr("U3"), transportType |-> JStr("UBAHN"), name |-> JStr("b")]),
     Obj([label |-> JStr("100"), transportType |-> JStr("BUS")])}

IdPool == {"de:00:7", "de:000:7"}

\* every list of at most MaxStations station ids of the pool
IdLists == UNION {[1..n -> {NonObj(JStr(id)) : id \in IdPool}] : n \in 0..MaxStations}

LocationResponses ==
    FailedResponses \cup {NonListResponse} \cup {JsonList(l) : l \in ListsOver(LocationPool)}

DepartureResponses ==
    FailedResponses \cup {NonListResponse} \cup {JsonList(l) : l \in ListsOver(DeparturePool)}

IdResponses == FailedResponses \cup {NonListResponse} \cup {JsonList(l) : l \in IdLists}

LineResponses ==
    {ClientErrorResponse, HttpResponse(500, "application/json", TRUE, <<>>),
     NonListResponse, JsonList(<<NonObj(JStr("x"))>>)}
    \cup {JsonList(l) : l \in ListsOver(LinePool)}

\* what one per-station fetch of the lines aggregation is answered with
FetchResponses ==
    LET a == Obj([label |-> JStr("U3"), transportType |-> JStr("UBAHN"), name |-> JStr("a")])
        b == Obj([label |-> JStr("U3"), transportType |-> JStr("UBAHN"), name |-> JStr("b")])
        c == Obj([label |-> JStr("100"), transportType |-> JStr("BUS")])
        d == Obj([name |-> JStr("d")])
    IN {ClientErrorResponse, HttpResponse(500, "application/json", TRUE, <<>>),
        HttpResponse(200, "text/html", TRUE, <<>>), NonListResponse,
        JsonList(<<NonObj(JStr("x"))>>),
        JsonList(<<>>), JsonList(<<a>>), JsonList(<<b, c>>), JsonList(<<c, d, a>>)}

\* ------------------------------------------------------------------------
\* Requests
\* ------------------------------------------------------------------------
NoArgs ==
    [names |-> {}, query |-> "", latitude |-> 0, longitude |-> 0, globalId |-> "",
     limit |-> 0, offsetInMinutes |-> 0, transportTypes |-> ""]

Request(base, endpoint, args, path_param) ==
    [base |-> base, endpoint |-> endpoint, args |-> args, path_param |-> path_param]

\* ------------------------------------------------------------------------
\* State
\* ------------------------------------------------------------------------
VARIABLES
    pc,          \* "idle", "await" (one request in flight), "gather", "done"
    call,        \* the public operation being run and its arguments
    requests,    \* the GET requests issued by the running operation
    response,    \* the answer to the operation's first request
    outcome,     \* what the operation returned or raised
    station_id,  \* self.station_id of the facade, JMissing before construction
    station_ids, \* lines aggregation: the sorted enumeration
    tasks,       \* lines aggregation: the per-station fetches
    order        \* lines aggregation: the tasks in the order they settled in

vars == <<pc, call, requests, response, outcome, station_id, station_ids, tasks, order>>

Call(op, station, validate_existence, params) ==
    [op |-> op, station |-> station, validate_existence |-> validate_existence,
     params |-> params]

DefaultParams ==
    [limit |-> MVGAPI_DEFAULT_LIMIT, offset |-> 0, transport_types |-> NoTypes]

NoCall == Call("", "", FALSE, DefaultParams)

Init ==
    /\ pc = "idle"
    /\ call = NoCall
    /\ requests = <<>>
    /\ response = NoResponse
    /\ outcome = NoResult
    /\ station_id = JMissing
    /\ station_ids = <<>>
    /\ tasks = <<>>
    /\ order = <<>>

\* the operation ends at once, without a request
Finish(c, r) ==
    /\ pc' = "done"
    /\ call' = c
    /\ requests' = <<>>
    /\ response' = NoResponse
    /\ outcome' = r
    /\ station_ids' = <<>>
    /\ tasks' = <<>>
    /\ order' = <<>>

\* the operation issues one request and waits for the answer
Await(c, req) ==
    /\ pc' = "await"
    /\ call' = c
    /\ requests' = <<req>>
    /\ response' = NoResponse
    /\ outcome' = NoResult
    /\ station_ids' = <<>>
    /\ tasks' = <<>>
    /\ order' = <<>>

\* the answer arrives and the operation ends
Answer(resp, r) ==
    /\ pc' = "done"
    /\ response' = resp
    /\ outcome' = r
    /\ UNCHANGED <<call, requests, station_ids, tasks, order>>

\* ------------------------------------------------------------------------
\* valid_station_id
\* ------------------------------------------------------------------------
\* an existence check that takes a failed enumeration for "exists"
existence_check_lenient(station, resp) ==
    LET result == AssertList(Api(resp))
    IN IF result.kind = "raise" THEN RetBool(TRUE)
       ELSE RetBool(\E i \in 1..Len(result.val) : result.val[i] = NonObj(JStr(station)))

\* lines 94-100 once the enumeration request is answered
ExistenceCheck(station, resp) ==
    LET result == AssertList(Api(resp))
    IN IF result.kind = "raise" THEN Raise("MvgApiError")
       ELSE RetBool(\E i \in 1..Len(result.val) : result.val[i] = NonObj(JStr(station)))

CallValidStationId ==
    \E s \in StationStrings, validate_existence \in BOOLEAN :
        LET c == Call("valid_station_id", s, validate_existence, DefaultParams)
        IN /\ pc = "idle"
           /\ IF ~valid_format(s) THEN Finish(c, RetBool(FALSE))
              ELSE IF validate_existence
                   THEN Await(c, Request("ZDM", "ZDM_STATION_IDS", NoArgs, ""))
                   ELSE Finish(c, RetBool(TRUE))
           /\ UNCHANGED station_id

RecvValidStationId ==
    \E resp \in IdResponses :
        /\ pc = "await"
        /\ call.op = "valid_station_id"
        /\ Answer(resp, ExistenceCheck(call.station, resp))
        /\ UNCHANGED station_id

\* ------------------------------------------------------------------------
\* station_query, nearby
\* ------------------------------------------------------------------------
CallStationQuery ==
    \E query \in {"Uni", " Uni", ""} :
        /\ pc = "idle"
        /\ Await(Call("station_query", query, FALSE, DefaultParams),
                 Request("FIB", "FIB_LOCATION",
                         [NoArgs EXCEPT !.names = {"query"}, !.query = Strip(query)], ""))
        /\ UNCHANGED station_id

RecvStationQuery ==
    \E resp \in LocationResponses :
        /\ pc = "await"
        /\ call.op = "station_query"
        /\ Answer(resp, StationSearch(resp))
        /\ UNCHANGED station_id

CallNearby ==
    \E latitude \in {0, 48}, longitude \in {11} :
        /\ pc = "idle"
        /\ Await(Call("nearby", "", FALSE, DefaultParams),
                 Request("FIB", "FIB_NEARBY",
                         [NoArgs EXCEPT !.names = {"latitude", "longitude"},
                                        !.latitude = latitude,
                                        !.longitude = longitude], ""))
        /\ UNCHANGED station_id

RecvNearby ==
    \E resp \in LocationResponses :
        /\ pc = "await"
        /\ call.op = "nearby"
        /\ Answer(resp, StationSearch(resp))
        /\ UNCHANGED station_id

\* ------------------------------------------------------------------------
\* MvgApi.__init__
\* ------------------------------------------------------------------------
\* a constructor that reports a search without a station as an API failure
init_not_found_as_api_error == Raise("MvgApiError")

\* the exception raised when the station search finds nothing
InitNotFound == Raise("ValueError")

CallInit ==
    \E s \in InitStrings :
        LET station == Strip(s)
            c == Call("__init__", s, FALSE, DefaultParams)
        IN /\ pc = "idle"
           /\ IF valid_format(station)
              THEN /\ Finish(c, RetNone)
                   /\ station_id' = JStr(station)
              ELSE /\ Await(c, Request("FIB", "FIB_LOCATION",
                                       [NoArgs EXCEPT !.names = {"query"},
                                                      !.query = Strip(station)], ""))
                   /\ UNCHANGED station_id

RecvInit ==
    \E resp \in LocationResponses :
        LET station_details == StationSearch(resp)
        IN /\ pc = "await"
           /\ call.op = "__init__"
           /\ IF station_details.kind = "raise"
              THEN Answer(resp, station_details) /\ UNCHANGED station_id
              ELSE IF station_details.tag = "obj"
                   THEN /\ Answer(resp, RetNone)
                        /\ station_id' = station_details.val[1].f["id"]
                   ELSE Answer(resp, InitNotFound) /\ UNCHANGED station_id

\* ------------------------------------------------------------------------
\* station_ids, stations, messages
\* ------------------------------------------------------------------------
CallStationIds ==
    /\ pc = "idle"
    /\ Await(Call("station_ids", "", FALSE, DefaultParams),
             Request("ZDM", "ZDM_STATION_IDS", NoArgs, ""))
    /\ UNCHANGED station_id

RecvStationIds ==
    \E resp \in IdResponses :
        /\ pc = "await"
        /\ call.op = "station_ids"
        /\ Answer(resp, StationIds(resp))
        /\ UNCHANGED station_id

CallStations ==
    /\ pc = "idle"
    /\ Await(Call("stations", "", FALSE, DefaultParams),
             Request("ZDM", "ZDM_STATIONS", NoArgs, ""))
    /\ UNCHANGED station_id

RecvStations ==
    \E resp \in LocationResponses :
        /\ pc = "await"
        /\ call.op = "stations"
        /\ Answer(resp, RawList(resp))
        /\ UNCHANGED station_id

CallMessages ==
    /\ pc = "idle"
    /\ Await(Call("messages", "", FALSE, DefaultParams),
             Request("FIB", "MESSAGE", NoArgs, ""))
    /\ UNCHANGED station_id

RecvMessages ==
    \E resp \in LineResponses :
        /\ pc = "await"
        /\ call.op = "messages"
        /\ Answer(resp, RawList(resp))
        /\ UNCHANGED station_id

\* ------------------------------------------------------------------------
\* departures_async and the facade's departures
\* ------------------------------------------------------------------------
\* a check that only rejects the empty string
bad_station_id_if_empty(sid) == sid = ""

\* lines 402-403: not MvgApi.valid_station_id(station_id.strip())
bad_station_id(sid) == ~valid_format(Strip(sid))

\* lines 407-414: the query arguments
DepartureArgs(sid, params) ==
    [NoArgs EXCEPT
        !.names = {"globalId", "offsetInMinutes", "limit", "transportTypes"},
        !.globalId = Strip(sid),
        !.offsetInMinutes = params.offset,
        !.limit = params.limit,
        !.transportTypes = Join(IF params.transport_types.none
                                THEN TransportTypeAll
                                ELSE params.transport_types.names)]

\* departures_async up to its request
StartDepartures(c) ==
    IF bad_station_id(c.station)
    THEN Finish(c, Raise("ValueError"))
    ELSE Await(c, Request("FIB", "FIB_DEPARTURE", DepartureArgs(c.station, c.params), ""))

CallDeparturesAsync ==
    \E s \in StationStrings, params \in DepartureParams :
        /\ pc = "idle"
        /\ StartDepartures(Call("departures_async", s, FALSE, params))
        /\ UNCHANGED station_id

\* the facade passes self.station_id; str.strip of a value that is not a
\* string raises AttributeError
CallDepartures ==
    \E params \in DepartureParams :
        /\ pc = "idle"
        /\ station_id # JMissing
        /\ IF station_id.t # "str"
           THEN Finish(Call("departures", "", FALSE, params), Raise("AttributeError"))
           ELSE StartDepartures(Call("departures", station_id.s, FALSE, params))
        /\ UNCHANGED station_id

RecvDepartures ==
    \E resp \in DepartureResponses :
        /\ pc = "await"
        /\ call.op \in {"departures_async", "departures"}
        /\ Answer(resp, DeparturesBody(resp))
        /\ UNCHANGED station_id

\* ------------------------------------------------------------------------
\* lines_async
\* ------------------------------------------------------------------------
\* station "" stands for lines_async(None)
CallLines ==
    \E s \in IdPool \cup {"", "Uni"} :
        LET c == Call("lines", s, FALSE, DefaultParams)
        IN /\ pc = "idle"
           /\ IF s # ""
              THEN Await(c, Request("FIB", "FIB_LINE_STATION", NoArgs, s))
              ELSE Await(c, Request("ZDM", "ZDM_STATION_IDS", NoArgs, ""))
           /\ UNCHANGED station_id

RecvLinesOfStation ==
    \E resp \in LineResponses :
        /\ pc = "await"
        /\ call.op = "lines"
        /\ call.station # ""
        /\ Answer(resp, RawList(resp))
        /\ UNCHANGED station_id

\* the enumeration is answered: the call fails, or one fetch per station id
\* is started
StartGather ==
    \E resp \in IdResponses :
        LET ids == StationIds(resp)
        IN /\ pc = "await"
           /\ call.op = "lines"
           /\ call.station = ""
           /\ IF ids.kind = "raise"
              THEN Answer(resp, Wrap(ids))
              ELSE /\ pc' = "gather"
                   /\ station_ids' = Strings(ids.val)
                   /\ tasks' = [i \in 1..Len(ids.val) |-> PendingTask]
                   /\ requests' = requests \o
                          [i \in 1..Len(ids.val) |->
                              Request("FIB", "FIB_LINE_STATION", NoArgs, ids.val[i].v.s)]
                   /\ order' = <<>>
                   /\ response' = resp
                   /\ UNCHANGED <<call, outcome>>
           /\ UNCHANGED station_id

\* one per-station fetch settles with a result or an exception
Settle ==
    \E i \in DOMAIN tasks, resp \in FetchResponses :
        /\ pc = "gather"
        /\ ~tasks[i].settled
        /\ tasks' = [tasks EXCEPT ![i] = SettledTask(Api(resp))]
        /\ order' = Append(order, i)
        /\ UNCHANGED <<pc, call, requests, response, outcome, station_id, station_ids>>

\* gather is over: lines 272-285
Merge ==
    /\ pc = "gather"
    /\ gather_done(tasks)
    /\ pc' = "done"
    /\ outcome' = MergeLines(gather_results(tasks, order))
    /\ UNCHANGED <<call, requests, response, station_id, station_ids, tasks, order>>

\* ------------------------------------------------------------------------
\* The caller takes the result
\* ------------------------------------------------------------------------
Return ==
    /\ pc = "done"
    /\ pc' = "idle"
    /\ call' = NoCall
    /\ requests' = <<>>
    /\ response' = NoResponse
    /\ outcome' = NoResult
    /\ station_ids' = <<>>
    /\ tasks' = <<>>
    /\ order' = <<>>
    /\ UNCHANGED station_id

Next ==
    \/ CallValidStationId
    \/ RecvValidStationId
    \/ CallStationQuery
    \/ RecvStationQuery
    \/ CallNearby
    \/ RecvNearby
    \/ CallInit
    \/ RecvInit
    \/ CallStationIds
    \/ RecvStationIds
    \/ CallStations
    \/ RecvStations
    \/ CallMessages
    \/ RecvMessages
    \/ CallDeparturesAsync
    \/ CallDepartures
    \/ RecvDepartures
    \/ CallLines
    \/ RecvLinesOfStation
    \/ StartGather
    \/ Settle
    \/ Merge
    \/ Return

Spec == Init /\ [][Next]_vars

\* ------------------------------------------------------------------------
\* Properties
\* ------------------------------------------------------------------------
\* s is de:<2-5 digits>:<digits>
GlobalIdGrammar(s) ==
    \E k \in 2..5 :
        /\ Len(s) >= k + 5
        /\ SubSeq(s, 1, 3) = "de:"
        /\ \A i \in 4..(k + 3) : IsDigit(Char(s, i))
        /\ Char(s, k + 4) = ":"
        /\ \A i \in (k + 5)..Len(s) : IsDigit(Char(s, i))

\* the part i..j of s is s without surrounding whitespace only
Surrounded(s, i, j) ==
    /\ \A p \in 1..(i - 1) : IsSpace(Char(s, p))
    /\ \A p \in (j + 1)..Len(s) : IsSpace(Char(s, p))

\* s is a global station id once surrounding whitespace is removed
GlobalIdInWhitespace(s) ==
    \E i \in 1..Len(s), j \in 1..Len(s) :
        i <= j /\ Surrounded(s, i, j) /\ GlobalIdGrammar(SubSeq(s, i, j))

\* the answer is a 200 application/json response whose body is a list
SuccessfulList(resp) ==
    /\ ~resp.client_error
    /\ resp.status = 200
    /\ resp.content_type = "application/json"
    /\ resp.islist

IsDepartures == call.op \in {"departures_async", "departures"}

\* C1 as stated: departures with a station id that does not match
\* de:<2-5 digits>:<digits> raises ValueError and issues no request.
C1_MalformedIdAlwaysRaises ==
    (IsDepartures /\ ~GlobalIdGrammar(call.station)) =>
        /\ requests = <<>>
        /\ pc = "done"
        /\ outcome = Raise("ValueError")

\* C1 amended: departures with a station id that, once its surrounding
\* whitespace is removed, does not match de:<2-5 digits>:<digits> raises
\* ValueError, and no request is issued, whatever limit, offset and
\* transport_types are.
C1_MalformedStrippedIdRaises ==
    (IsDepartures /\ ~GlobalIdInWhitespace(call.station)) =>
        /\ requests = <<>>
        /\ pc = "done"
        /\ outcome = Raise("ValueError")

C1_Witness ==
    /\ pc = "done"
    /\ call.op = "departures_async"
    /\ call.station = "de:000000:7"
    /\ call.params.limit = 1
    /\ outcome = Raise("ValueError")
    /\ requests = <<>>

C6_InvalidFormatIsFalseOffline ==
    (call.op = "valid_station_id" /\ ~GlobalIdGrammar(call.station)) =>
        /\ pc = "done"
        /\ requests = <<>>
        /\ outcome = RetBool(FALSE)

C6_Witness ==
    /\ pc = "done"
    /\ call.op = "valid_station_id"
    /\ call.validate_existence
    /\ call.station = "de:00:7x"
    /\ outcome = RetBool(FALSE)
    /\ requests = <<>>

\* the first entry of a list that is an object of type STATION, 0 if none
FirstStationIndex(items) ==
    LET found == {i \in 1..Len(items) :
                     items[i].dict /\ items[i].f["type"] = JStr("STATION")}
    IN IF found = {} THEN 0 ELSE CHOOSE i \in found : \A j \in found : i <= j

\* every entry the scan looks at is an object: the entries up to the first
\* STATION entry, all of them when there is none
ObjectsScanned(items) ==
    \A j \in 1..Len(items) :
        (FirstStationIndex(items) = 0 \/ j < FirstStationIndex(items)) => items[j].dict

\* the value of a key, d when the entry leaves the key out
FieldOr(entry, k, d) == IF HasKey(entry, k) THEN entry.f[k] ELSE d

\* record is the station record of the location entry
IsStationRecordOf(record, entry) ==
    /\ record.dict
    /\ {k \in Keys : HasKey(record, k)} = {"id", "name", "place", "latitude", "longitude"}
    /\ record.f["id"] = FieldOr(entry, "globalId", JStr(""))
    /\ record.f["name"] = FieldOr(entry, "name", JStr(""))
    /\ record.f["place"] = FieldOr(entry, "place", JStr(""))
    /\ record.f["latitude"] = FieldOr(entry, "latitude", JNum(0))
    /\ record.f["longitude"] = FieldOr(entry, "longitude", JNum(0))

\* C7: station_query and nearby_async over a list answer return the record
\* of the first entry of type STATION, skipping the entries before it, and
\* return None without an error when the list is empty or has no STATION
\* entry.
C7_FirstStationOrNone ==
    (/\ pc = "done"
     /\ call.op \in {"station_query", "nearby"}
     /\ SuccessfulList(response)
     /\ ObjectsScanned(response.items)) =>
        LET first == FirstStationIndex(response.items)
        IN IF first = 0
           THEN outcome = RetNone
           ELSE /\ outcome.kind = "return"
                /\ outcome.tag = "obj"
                /\ IsStationRecordOf(outcome.val[1], response.items[first])

C7_Witness ==
    /\ pc = "done"
    /\ call.op = "station_query"
    /\ SuccessfulList(response)
    /\ Len(response.items) = 2
    /\ response.items[1] = Obj([type |-> JStr("POI"), name |-> JStr("Cafe")])
    /\ response.items[2].f["globalId"] = JStr("de:09162:70")
    /\ outcome.tag = "obj"
    /\ outcome.val[1].f["id"] = JStr("de:09162:70")

\* C8 as stated: a string that is not a valid-format global id is resolved
\* through station search.
C8_InvalidFormatIsSearched ==
    (call.op = "__init__" /\ ~GlobalIdGrammar(call.station)) =>
        /\ Len(requests) = 1
        /\ requests[1].endpoint = "FIB_LOCATION"

\* C8 amended: the constructor removes surrounding whitespace first.  When
\* the stripped string is a valid-format global id it is bound without a
\* request; otherwise the stripped string is resolved through station search
\* and the id of the found station is bound, and ValueError, not
\* MvgApiError, is raised when the search finds no station.  The facade's
\* departures passes the bound id.
C8_ConstructorBindsStrippedIdOrSearches ==
    /\ (call.op = "__init__" /\ GlobalIdInWhitespace(call.station)) =>
          /\ pc = "done"
          /\ requests = <<>>
          /\ outcome = RetNone
          /\ station_id.t = "str"
          /\ GlobalIdGrammar(station_id.s)
          /\ \E i \in 1..Len(call.station), j \in 1..Len(call.station) :
                /\ Surrounded(call.station, i, j)
                /\ station_id.s = SubSeq(call.station, i, j)
    /\ (call.op = "__init__" /\ ~GlobalIdInWhitespace(call.station)) =>
          /\ Len(requests) = 1
          /\ requests[1].endpoint = "FIB_LOCATION"
          /\ requests[1].args.names = {"query"}
          /\ \/ requests[1].args.query = "" /\ \A p \in 1..Len(call.station) :
                                                    IsSpace(Char(call.station, p))
             \/ \E i \in 1..Len(call.station), j \in 1..Len(call.station) :
                   /\ Surrounded(call.station, i, j)
                   /\ ~IsSpace(Char(call.station, i))
                   /\ ~IsSpace(Char(call.station, j))
                   /\ requests[1].args.query = SubSeq(call.station, i, j)
          /\ (pc = "done" /\ SuccessfulList(response) /\ ObjectsScanned(response.items)) =>
                LET first == FirstStationIndex(response.items)
                IN IF first = 0
                   THEN outcome = Raise("ValueError")
                   ELSE /\ outcome = RetNone
                        /\ station_id = FieldOr(response.items[first], "globalId", JStr(""))
    /\ call.op = "departures" =>
          /\ station_id.t = "str"
          /\ call.station = station_id.s
          /\ requests # <<>> => /\ GlobalIdGrammar(requests[1].args.globalId)
                                /\ requests[1].args.globalId = station_id.s

C8_Witness ==
    /\ pc = "done"
    /\ call.op = "__init__"
    /\ call.station = " de:00:7\n"
    /\ requests = <<>>
    /\ station_id = JStr("de:00:7")

\* the keys a record holds
KeysOf(record) == {k \in Keys : HasKey(record, k)}

\* the value the record holds under key `to` is the one the entry holds
\* under key `from`, and d when the entry leaves that key out
Carries(record, to, entry, from, d) ==
    /\ HasKey(record, to)
    /\ ~HasKey(entry, from) => record.f[to] = d
    /\ HasKey(entry, from) => record.f[to] = entry.f[from]

\* C9: a station record always has id, name, place, latitude and longitude,
\* a departure record always has time, planned, line, destination, type,
\* icon, cancelled and messages, whatever keys the source entry leaves out:
\* a string left out is empty, a number 0, a boolean false, a list empty.
C9_RecordsCarryEveryField ==
    /\ (/\ pc = "done"
        /\ call.op \in {"station_query", "nearby"}
        /\ outcome.kind = "return"
        /\ outcome.tag = "obj") =>
          LET record == outcome.val[1]
              entry == response.items[FirstStationIndex(response.items)]
          IN /\ KeysOf(record) = {"id", "name", "place", "latitude", "longitude"}
             /\ Carries(record, "id", entry, "globalId", JStr(""))
             /\ Carries(record, "name", entry, "name", JStr(""))
             /\ Carries(record, "place", entry, "place", JStr(""))
             /\ Carries(record, "latitude", entry, "latitude", JNum(0))
             /\ Carries(record, "longitude", entry, "longitude", JNum(0))
    /\ (/\ pc = "done"
        /\ IsDepartures
        /\ outcome.kind = "return") =>
          /\ outcome.tag = "list"
          /\ Len(outcome.val) = Len(response.items)
          /\ \A i \in 1..Len(outcome.val) :
                LET record == outcome.val[i]
                    entry == response.items[i]
                IN /\ KeysOf(record) = {"time", "planned", "line", "destination",
                                        "type", "icon", "cancelled", "messages"}
                   /\ record.f["time"].t = "num"
                   /\ record.f["planned"].t = "num"
                   /\ ~HasKey(entry, "realtimeDepartureTime") => record.f["time"] = JNum(0)
                   /\ ~HasKey(entry, "plannedDepartureTime") => record.f["planned"] = JNum(0)
                   /\ Carries(record, "line", entry, "label", JStr(""))
                   /\ Carries(record, "destination", entry, "destination", JStr(""))
                   /\ Carries(record, "cancelled", entry, "cancelled", JBool(FALSE))
                   /\ Carries(record, "messages", entry, "messages", JList(<<>>))
                   /\ record.f["type"].t = "str"
                   /\ record.f["icon"].t = "str"

C9_Witness ==
    /\ pc = "done"
    /\ IsDepartures
    /\ response = JsonList(<<Obj([label |-> JStr("N")])>>)
    /\ outcome.kind = "return"
    /\ outcome.val[1].f["time"] = JNum(0)
    /\ outcome.val[1].f["destination"] = JStr("")
    /\ outcome.val[1].f["cancelled"] = JBool(FALSE)
    /\ outcome.val[1].f["messages"] = JList(<<>>)

\* the display name and icon of a transport type code, those of BAHN for a
\* code that is no member name
Display(code) ==
    CASE code = JStr("SBAHN") -> <<"S-Bahn", "mdi:subway-variant">>
      [] code = JStr("UBAHN") -> <<"U-Bahn", "mdi:subway">>
      [] code = JStr("TRAM") -> <<"Tram", "mdi:tram">>
      [] code = JStr("BUS") -> <<"Bus", "mdi:bus">>
      [] code = JStr("REGIONAL_BUS") -> <<"Regionalbus", "mdi:bus">>
      [] code = JStr("SEV") -> <<"SEV", "mdi:taxi">>
      [] code = JStr("SCHIFF") -> <<"Schiff", "mdi:ferry">>
      [] OTHER -> <<"Bahn", "mdi:train">>

\* a departure entry of the expected shape: an object whose times are
\* numbers or left out and whose transport type is a string, null or left out
DepartureShaped(entry) ==
    /\ entry.dict
    /\ entry.f["realtimeDepartureTime"].t \in {"missing", "num"}
    /\ entry.f["plannedDepartureTime"].t \in {"missing", "num"}
    /\ entry.f["transportType"].t \in {"missing", "str", "null"}

\* C10: a departure whose transportType is no known member name comes out
\* with the name and icon of BAHN ("Bahn", "mdi:train") and raises nothing;
\* a departure with a known code comes out with that code's name and icon.
C10_UnknownTypeFallsBackToBahn ==
    (/\ pc = "done"
     /\ IsDepartures
     /\ SuccessfulList(response)
     /\ \A i \in 1..Len(response.items) : DepartureShaped(response.items[i])) =>
        /\ outcome.kind = "return"
        /\ outcome.tag = "list"
        /\ Len(outcome.val) = Len(response.items)
        /\ \A i \in 1..Len(outcome.val) :
              /\ outcome.val[i].f["type"] =
                    JStr(Display(response.items[i].f["transportType"])[1])
              /\ outcome.val[i].f["icon"] =
                    JStr(Display(response.items[i].f["transportType"])[2])

C10_Witness ==
    /\ pc = "done"
    /\ IsDepartures
    /\ SuccessfulList(response)
    /\ Len(response.items) = 2
    /\ response.items[1].f["transportType"] = JStr("FOO")
    /\ response.items[2].f["transportType"] = JStr("UBAHN")
    /\ outcome.kind = "return"
    /\ outcome.val[1].f["type"] = JStr("Bahn")
    /\ outcome.val[1].f["icon"] = JStr("mdi:train")
    /\ outcome.val[2].f["type"] = JStr("U-Bahn")

\* C4: whatever fails while a remote endpoint is called or its answer is
\* parsed reaches the caller as MvgApiError; ValueError is the only other
\* error a caller ever sees.
C4_OnlyApiErrorOrValueError ==
    /\ (pc = "done" /\ response # NoResponse /\ ~SuccessfulList(response)) =>
          outcome = Raise("MvgApiError")
    /\ (pc = "done" /\ outcome.kind = "raise") =>
          outcome.exc \in {"MvgApiError", "ValueError"}

\* what does hold of failed answers: a transport failure, a status other
\* than 200, a content type other than JSON and a body that is not a list
\* raise MvgApiError in every operation
FailedAnswerRaisesApiError ==
    (pc = "done" /\ response # NoResponse /\ ~SuccessfulList(response)) =>
        outcome = Raise("MvgApiError")

\* lines_async(None) whose enumeration request was answered with a list
IsAggregation == call.op = "lines" /\ call.station = "" /\ SuccessfulList(response)

\* the per-station fetch i succeeded: it returned a list
Fetched(i) == tasks[i].result.kind = "return" /\ tasks[i].result.tag = "list"

\* the per-station fetch i failed: it raised
FetchFailed(i) == tasks[i].result.kind = "raise"

\* the places (station, position) of the lines the successful fetches report
Reported ==
    UNION {{<<i, p>> : p \in 1..Len(tasks[i].result.val)} :
              i \in {j \in DOMAIN tasks : Fetched(j)}}

LineAt(place) == tasks[place[1]].result.val[place[2]]

\* place a comes before place b when the per-station results are traversed
\* in station order
Before(a, b) == a[1] < b[1] \/ (a[1] = b[1] /\ a[2] <= b[2])

\* the (label, transportType) key of a line
KeyOf(line) == <<line.f["label"], line.f["transportType"]>>

\* every reported line is an object
LinesShaped == \A place \in Reported : LineAt(place).dict

\* C2: in lines_async(None) the fetches are made in ascending station id
\* order, and for every (label, transportType) key a successful fetch
\* reports the result has exactly one entry: the first with that key when
\* the per-station results are traversed in that order, whatever order the
\* fetches completed in.
C2_FirstLinePerKeyInStationOrder ==
    (pc = "done" /\ IsAggregation /\ LinesShaped) =>
        /\ \A i \in DOMAIN station_ids, j \in DOMAIN station_ids :
              i < j => ~StrLess(station_ids[j], station_ids[i])
        /\ \A i \in DOMAIN tasks : requests[i + 1].path_param = station_ids[i]
        /\ outcome.kind = "return"
        /\ \A place \in Reported :
              LET same == {q \in 1..Len(outcome.val) :
                              KeyOf(outcome.val[q]) = KeyOf(LineAt(place))}
                  first == CHOOSE a \in Reported :
                              /\ KeyOf(LineAt(a)) = KeyOf(LineAt(place))
                              /\ \A b \in Reported :
                                    KeyOf(LineAt(b)) = KeyOf(LineAt(place)) => Before(a, b)
              IN /\ Cardinality(same) = 1
                 /\ \A q \in same : outcome.val[q] = LineAt(first)

C2_Witness ==
    /\ pc = "done"
    /\ IsAggregation
    /\ response.items = <<NonObj(JStr("de:00:7")), NonObj(JStr("de:000:7"))>>
    /\ station_ids = <<"de:000:7", "de:00:7">>
    /\ order = <<2, 1>>
    /\ Fetched(1) /\ Len(tasks[1].result.val) = 2
    /\ Fetched(2) /\ Len(tasks[2].result.val) = 1
    /\ tasks[1].result.val[1].f["name"] = JStr("b")
    /\ tasks[2].result.val[1].f["name"] = JStr("a")
    /\ KeyOf(tasks[1].result.val[1]) = KeyOf(tasks[2].result.val[1])
    /\ Len(outcome.val) = 2
    /\ outcome.val[1].f["name"] = JStr("b")

\* C3: in lines_async(None) a per-station fetch that fails is discarded.  The
\* merge starts when every fetch has settled, none is left unsettled by a
\* failed sibling, and the call returns the merge of the successful fetches
\* instead of raising, whichever fetches fail.
C3_FailedFetchesAreDiscarded ==
    (pc = "done" /\ IsAggregation) =>
        /\ Len(tasks) = Len(response.items)
        /\ Len(requests) = 1 + Len(tasks)
        /\ \A i \in DOMAIN tasks : tasks[i].settled
        /\ LinesShaped =>
              /\ outcome.kind = "return"
              /\ outcome.tag = "list"
              /\ \A q \in 1..Len(outcome.val) :
                    \E place \in Reported : outcome.val[q] = LineAt(place)
              /\ \A place \in Reported :
                    \E q \in 1..Len(outcome.val) :
                        KeyOf(outcome.val[q]) = KeyOf(LineAt(place))

C3_Witness ==
    /\ pc = "done"
    /\ IsAggregation
    /\ Len(tasks) = 2
    /\ order = <<1, 2>>
    /\ FetchFailed(1)
    /\ Fetched(2)
    /\ Len(tasks[2].result.val) = 2
    /\ outcome = RetList(tasks[2].result.val)

\* seconds is milliseconds divided by 1000 with the fraction dropped: what
\* is left over is less than a second and has the sign of milliseconds
IsWholeSecondsOf(seconds, milliseconds) ==
    \E rest \in -999..999 :
        /\ milliseconds = 1000 * seconds + rest
        /\ rest > 0 => milliseconds > 0
        /\ rest < 0 => milliseconds < 0

\* the number a time field of a departure entry holds, 0 when it is left out
Milliseconds(entry, k) == IF HasKey(entry, k) THEN entry.f[k].n ELSE 0

\* C11: the time and planned fields of every departure record are the whole
\* seconds of the millisecond values realtimeDepartureTime and
\* plannedDepartureTime (divided by 1000, the fraction dropped), and a field
\* the entry leaves out gives 0 and no error.
C11_TimesAreWholeSeconds ==
    (/\ pc = "done"
     /\ IsDepartures
     /\ SuccessfulList(response)
     /\ \A i \in 1..Len(response.items) : DepartureShaped(response.items[i])) =>
        /\ outcome.kind = "return"
        /\ outcome.tag = "list"
        /\ Len(outcome.val) = Len(response.items)
        /\ \A i \in 1..Len(outcome.val) :
              LET record == outcome.val[i]
                  entry == response.items[i]
              IN /\ record.f["time"].t = "num"
                 /\ record.f["planned"].t = "num"
                 /\ IsWholeSecondsOf(record.f["time"].n,
                                     Milliseconds(entry, "realtimeDepartureTime"))
                 /\ IsWholeSecondsOf(record.f["planned"].n,
                                     Milliseconds(entry, "plannedDepartureTime"))
                 /\ ~HasKey(entry, "realtimeDepartureTime") => record.f["time"] = JNum(0)
                 /\ ~HasKey(entry, "plannedDepartureTime") => record.f["planned"] = JNum(0)

C11_Witness ==
    /\ pc = "done"
    /\ IsDepartures
    /\ SuccessfulList(response)
    /\ Len(response.items) = 2
    /\ response.items[1].f["realtimeDepartureTime"] = JNum(1668524580)
    /\ ~HasKey(response.items[1], "plannedDepartureTime")
    /\ response.items[2].f["realtimeDepartureTime"] = JNum(1999)
    /\ response.items[2].f["plannedDepartureTime"] = JNum(-1500)
    /\ outcome.kind = "return"
    /\ outcome.val[1].f["time"] = JNum(1668524)
    /\ outcome.val[1].f["planned"] = JNum(0)
    /\ outcome.val[2].f["time"] = JNum(1)
    /\ outcome.val[2].f["planned"] = JNum(-1)

====
